---- MODULE Spec2Model ----
(***************************************************************************)
(* History-rewrite orchestration of git_interactive_rebase.py.             *)
(*                                                                         *)
(* The repository is modelled as an object store of commits (a commit's    *)
(* SHA is its index in the store), HEAD, the rebase-in-progress marker and *)
(* a flag for uncommitted changes.  A commit carries the sequence of       *)
(* original changes it holds (one change for an ordinary commit, several   *)
(* after a squash) and its message.  The application state is the          *)
(* BaseAnchor (commit_sha), the displayed list and the multi-select        *)
(* widgets.  Every UI handler is one action.                               *)
(***************************************************************************)
EXTENDS Integers, Sequences, FiniteSets, TLC

VARIABLES repo, commit_sha, list_widget, multi_select_mode, boxes, checked,
          merge_selected_btn, cancel_multi_btn, last, nops, in_flight,
          start_time_head, failsafe_btn

vars == <<repo, commit_sha, list_widget, multi_select_mode, boxes, checked,
          merge_selected_btn, cancel_multi_btn, last, nops, in_flight,
          start_time_head, failsafe_btn>>

(***************************************************************************)
(* Bounds.                                                                 *)
(***************************************************************************)
MaxLen == 3        \* longest displayed range at session start
MaxBelow == 1      \* commits below the base commit at session start
MaxOps == 2        \* rewrite attempts per session
PlanLen == 5       \* longest displayed range for direct calls of the driver
MaxHunks == 2      \* most hunks a split script finds in a commit's diff
MaxAbbrevOver == 2 \* longest abbreviation of a SHA, over git's default
MaxTemp == 2       \* names the system can give a temporary file

NewMsg == 100      \* first message text a dialog can return that no commit has

ShownLen == 8      \* characters of START_TIME_HEAD the failsafe button uses

\* abbreviation lengths of git rev-parse --short: 7 by default, more in a
\* repository of many objects or under core.abbrev
DefaultAbbrev == ShownLen - 1

AbbrevLens == DefaultAbbrev..(DefaultAbbrev + MaxAbbrevOver)

(***************************************************************************)
(* Sequences.                                                              *)
(***************************************************************************)
Range(s) == {s[i] : i \in 1..Len(s)}

Reverse(s) == [i \in 1..Len(s) |-> s[Len(s) + 1 - i]]

Min(a, b) == IF a < b THEN a ELSE b

IndexOf(s, x) == CHOOSE i \in 1..Len(s) : s[i] = x

Without(s, x) == SelectSeq(s, LAMBDA y : y # x)

\* the list after the item at row `from` was dragged to row `to`
MoveItem(s, from, to) ==
    LET rest == [i \in 1..(Len(s) - 1) |-> IF i < from THEN s[i] ELSE s[i + 1]]
    IN  [i \in 1..Len(s) |->
            IF i < to THEN rest[i] ELSE IF i = to THEN s[from] ELSE rest[i - 1]]

None == <<0>>      \* Python's None for an optional list argument

NoMap == [x \in {} |-> <<>>]

(***************************************************************************)
(* The repository: git's object store and the commands the tool issues.    *)
(***************************************************************************)
RECURSIVE Ancestry(_, _)
\* the commits reachable from c, newest first (histories are linear)
Ancestry(cs, c) == IF c = 0 THEN <<>> ELSE <<c>> \o Ancestry(cs, cs[c].parent)

\* the changes carried by a list of commits, flattened in list order
RECURSIVE ChangesOf(_, _)
ChangesOf(cs, s) ==
    IF s = <<>> THEN <<>> ELSE cs[Head(s)].chg \o ChangesOf(cs, Tail(s))

\* the content of the tree of commit c: the changes applied up to c
TreeOf(cs, c) == Range(ChangesOf(cs, Ancestry(cs, c)))

\* sha names a commit of the object store
Resolves(rp, sha) == sha \in DOMAIN rp.commits

\* git rev-parse <sha>^ : 0 when the call fails, because the commit has no
\* parent or because sha does not resolve
rev_parse_parent(rp, sha) ==
    IF Resolves(rp, sha) THEN rp.commits[sha].parent ELSE 0

\* git log <excl>..<tip> --oneline, newest first
git_log_range(rp, excl, tip) ==
    LET hidden == Range(Ancestry(rp.commits, excl))
    IN  SelectSeq(Ancestry(rp.commits, tip), LAMBDA c : c \notin hidden)

\* replaying commit sha on top of cur can conflict when the trees differ
MayConflict(cs, cur, sha) == TreeOf(cs, cur) # TreeOf(cs, cs[sha].parent)

\* a change that is already in the tree replays as an empty commit: -i stops
BecomesEmpty(cs, cur, sha) == Range(cs[sha].chg) \cap TreeOf(cs, cur) # {}

\* git diff-tree --name-only: a commit touches one file per change it holds
get_commit_files(rp, sha) == Range(rp.commits[sha].chg)

\* the j-th hunk of the single-file change c, as a change of its own
hunk_id(c, j) == c * 10 + j

RECURSIVE commit_hunks(_, _, _, _, _)
\* step 4 of the split script: hunks j..h of change c are applied and
\* committed one by one on top of cur, with the message "change-j of <sha>"
commit_hunks(cs, cur, c, j, h) ==
    IF j > h THEN cs
    ELSE commit_hunks(Append(cs, [parent |-> cur, chg |-> <<hunk_id(c, j)>>,
                                  msg |-> <<NewMsg + j>>]),
                      Len(cs) + 1, c, j + 1, h)

\* the todo git writes for rebase -i <onto>: a pick per commit of
\* <onto>..HEAD, oldest first
git_todo(rp, onto) ==
    LET shas == Reverse(git_log_range(rp, onto, rp.head))
    IN  [i \in 1..Len(shas) |-> [op |-> "pick", sha |-> shas[i], msg |-> <<>>]]

RECURSIVE RunTodo(_, _, _, _)
\* the sequencer: the possible outcomes of executing instruction i.. of the
\* todo on top of cur.  A replay that can conflict either stops or goes on.
RunTodo(cs, cur, todo, i) ==
    IF i > Len(todo) THEN {[commits |-> cs, cur |-> cur, ok |-> TRUE]}
    ELSE
      LET ins == todo[i]
          stop == [commits |-> cs, cur |-> cur, ok |-> FALSE]
          new == Len(cs) + 1
      IN  CASE ins.op = "pick" ->
                 IF cs[ins.sha].parent = cur
                 THEN RunTodo(cs, ins.sha, todo, i + 1)     \* fast-forward
                 ELSE IF BecomesEmpty(cs, cur, ins.sha) THEN {stop}
                 ELSE (IF MayConflict(cs, cur, ins.sha) THEN {stop} ELSE {})
                      \cup RunTodo(Append(cs, [parent |-> cur,
                                               chg |-> cs[ins.sha].chg,
                                               msg |-> cs[ins.sha].msg]),
                                   new, todo, i + 1)
            [] ins.op = "squash" ->
                 IF BecomesEmpty(cs, cur, ins.sha) THEN {stop}
                 ELSE (IF MayConflict(cs, cur, ins.sha) THEN {stop} ELSE {})
                      \cup RunTodo(Append(cs,
                                      [parent |-> cs[cur].parent,
                                       chg |-> cs[cur].chg \o cs[ins.sha].chg,
                                       msg |-> cs[cur].msg \o cs[ins.sha].msg]),
                                   new, todo, i + 1)
            [] ins.op = "exec split" ->
                 \* exec python3 <split script>; ins.msg holds the number of
                 \* hunks the script finds in the diff of ins.sha
                 IF ins.msg[1] = 0
                 THEN RunTodo(cs, cur, todo, i + 1)         \* sys.exit(0)
                 ELSE IF cur = 0 \/ cs[cur].parent = 0
                 THEN {stop}             \* git reset --hard HEAD~1 fails
                 ELSE (IF MayConflict(cs, cs[cur].parent, ins.sha)
                       THEN {stop} ELSE {})                 \* patch fails
                      \cup RunTodo(commit_hunks(cs, cs[cur].parent,
                                                cs[ins.sha].chg[1], 1,
                                                ins.msg[1]),
                                   Len(cs) + ins.msg[1], todo, i + 1)
            [] ins.op = "exec move out" ->
                 \* exec git reset --soft HEAD~1 && git reset HEAD -- <file>
                 \* && git commit -C <sha> && git add <file> && git commit;
                 \* ins.msg holds the file
                 IF cur = 0 \/ cs[cur].parent = 0
                 THEN {stop}             \* git reset --soft HEAD~1 fails
                 ELSE RunTodo(cs \o
                              <<[parent |-> cs[cur].parent,
                                 chg |-> Without(cs[cur].chg, ins.msg[1]),
                                 msg |-> cs[ins.sha].msg],
                                [parent |-> new, chg |-> ins.msg,
                                 msg |-> <<NewMsg + ins.msg[1]>>]>>,
                              new + 1, todo, i + 1)
            [] OTHER ->    \* exec git commit --amend -F <file>
                 RunTodo(Append(cs, [cs[cur] EXCEPT !.msg = ins.msg]),
                         new, todo, i + 1)

\* git rebase -i [--autosquash] <onto> with the sequence editor writing todo;
\* onto = 0 is --root.  The possible outcomes: repository and exit code.
git_rebase(rp, onto, todo) ==
    IF rp.marker \/ rp.dirty \/ todo = <<>>
    THEN {[repo |-> rp, rc |-> 1]}      \* refused, or "nothing to do"
    ELSE IF todo[1].op = "squash"
    THEN {[repo |-> [rp EXCEPT !.head = onto, !.marker = TRUE, !.orig = rp.head],
           rc |-> 1]}                   \* cannot 'squash' without a previous commit
    ELSE {IF r.ok
          THEN [repo |-> [rp EXCEPT !.commits = r.commits, !.head = r.cur],
                rc |-> 0]
          ELSE [repo |-> [rp EXCEPT !.commits = r.commits, !.head = r.cur,
                                    !.marker = TRUE, !.orig = rp.head,
                                    !.dirty = TRUE],
                rc |-> 1] :
          r \in RunTodo(rp.commits, onto, todo, 1)}

\* git rebase --abort
git_rebase_abort(rp) ==
    IF rp.marker
    THEN [rp EXCEPT !.head = rp.orig, !.marker = FALSE, !.orig = 0, !.dirty = FALSE]
    ELSE rp

\* git reset --hard <sha>
git_reset_hard(rp, sha) == [rp EXCEPT !.head = sha, !.dirty = FALSE]

\* the first n characters of a SHA; a Python slice s[:n] of a short SHA
\* keeps it when it has n characters or fewer
Short(sha, n) == [sha |-> sha, len |-> n]

Slice(s, n) == [s EXCEPT !.len = Min(@, n)]

\* a SHA given by its first characters names the commit (prefixes are
\* unique in the repository)
rev_parse(s) == s.sha

\* get_head_sha: git rev-parse --short HEAD, at the abbreviation length of
\* the repository; "Unknown" when the call fails
Unknown == Short(0, 0)

get_head_sha(rp) == IF rp.head = 0 THEN Unknown ELSE Short(rp.head, rp.abbrev)

\* has_uncommitted_changes: git status --porcelain prints something
has_uncommitted_changes(rp) == rp.dirty

(***************************************************************************)
(* History Reader.                                                         *)
(***************************************************************************)
\* get_git_history: <<>> stands for the raised exception as well, since
\* load_history leaves the list empty then
get_git_history(rp, sha) ==
    IF rp.head = 0 THEN <<>>
    ELSE IF rev_parse_parent(rp, sha) # 0
    THEN git_log_range(rp, rev_parse_parent(rp, sha), rp.head)
    ELSE Ancestry(rp.commits, rp.head)

\* get_git_history raises: the git log call exits non-zero, which it does
\* when HEAD names no commit
get_git_history_raises(rp, sha) == rp.head = 0

(***************************************************************************)
(* Plan Builder, Instruction Emitter and Rebase Driver:                    *)
(* GitHistoryApp.run_interactive_rebase.                                   *)
(***************************************************************************)
RECURSIVE CommonWalk(_, _, _, _, _)
\* the zip loop: n positions are common so far; stops at the first position
\* that differs or is a rephrase target or a member of the squash list
CommonWalk(old_order, proposed_order, rephrase_map, squash_shas, n) ==
    IF /\ n < Min(Len(old_order), Len(proposed_order))
       /\ old_order[n + 1] = proposed_order[n + 1]
       /\ old_order[n + 1] \notin DOMAIN rephrase_map
       /\ old_order[n + 1] \notin squash_shas
    THEN CommonWalk(old_order, proposed_order, rephrase_map, squash_shas, n + 1)
    ELSE n

\* the walk of a builder that forgets the rephrase targets
common_count_ignoring_rephrase(old_order, proposed_order, rephrase_map, squash_shas) ==
    CommonWalk(old_order, proposed_order, NoMap, squash_shas, 0)

common_count(old_order, proposed_order, rephrase_map, squash_shas) ==
    CommonWalk(old_order, proposed_order, rephrase_map, squash_shas, 0)

\* "SQUASH FIX": the prefix length after the one-commit correction
squash_fix(cc, proposed_order, squash_shas) ==
    IF /\ cc > 0
       /\ cc < Len(proposed_order)
       /\ proposed_order[cc + 1] \in squash_shas
    THEN IF cc > 1 THEN cc - 1 ELSE 0
    ELSE cc

\* a builder that compares the orders as displayed, newest first
as_displayed(shas) == shas

\* list(reversed(...)): the todo of a rebase is oldest first
oldest_first(shas) == Reverse(shas)

\* upstream and the commits to replay; upstream 0 with root TRUE is --root
build_plan(rp, anchor, display_shas, new_shas, rephrase_map, squash_shas) ==
    LET old_order == oldest_first(display_shas)
        proposed_order == oldest_first(new_shas)
        cc == squash_fix(common_count(old_order, proposed_order,
                                      rephrase_map, squash_shas),
                         proposed_order, squash_shas)
        par == rev_parse_parent(rp, anchor)
    IN  IF cc > 0
        THEN [common_count |-> cc, upstream |-> old_order[cc], root |-> FALSE,
              todo_shas |-> SubSeq(proposed_order, cc + 1, Len(proposed_order))]
        ELSE [common_count |-> 0, upstream |-> par, root |-> (par = 0),
              todo_shas |-> proposed_order]

\* the rephrase messages that get a temp file: those of commits to replay
msg_files(rephrase_map, todo_shas) ==
    [sha \in DOMAIN rephrase_map \cap Range(todo_shas) |-> rephrase_map[sha]]

RECURSIVE emit_todo(_, _, _)
\* the lines the generated sequence editor writes into the todo file
emit_todo(todo_shas, files, squash_shas) ==
    IF todo_shas = <<>> THEN <<>>
    ELSE LET sha == Head(todo_shas)
         IN  <<[op |-> IF sha \in squash_shas THEN "squash" ELSE "pick",
                sha |-> sha, msg |-> <<>>]>>
             \o (IF sha \in DOMAIN files
                 THEN <<[op |-> "exec", sha |-> sha, msg |-> files[sha]]>>
                 ELSE <<>>)
             \o emit_todo(Tail(todo_shas), files, squash_shas)

NoPlan == [common_count |-> 0, upstream |-> 0, root |-> FALSE, todo_shas |-> <<>>]

\* one git command the tool issued, as recorded in last.cmds; "rebase" and
\* "rebase --root" are the forms with -i --autosquash
Cmd(name, target, todo, rc) ==
    [cmd |-> name, target |-> target, todo |-> todo, rc |-> rc]

\* the anchor stored on the success path of the rebase
new_anchor(anchor, new_shas) ==
    IF new_shas # <<>> THEN new_shas[Len(new_shas)] ELSE anchor

\* the temp files still on disk when os.unlink(editor_script) raised: the
\* loop that removes the message files is skipped (the editor script, whose
\* removal failed, is not counted)
leaked_msg_files(todo) ==
    IF \E i \in 1..Len(todo) : todo[i].op = "exec"
    THEN {"message file"} ELSE {}

\* a driver that stores the new anchor whatever the rebase returned
after_rebase_storing_always(r, plan, todo, anchor, new_shas, unlinkRaises) ==
    [repo |-> IF r.rc = 0 THEN r.repo ELSE git_rebase_abort(r.repo),
     commit_sha |-> new_anchor(anchor, new_shas), ret |-> r.rc = 0,
     plan |-> plan,
     cmds |-> <<Cmd(IF plan.root THEN "rebase --root" ELSE "rebase",
                    plan.upstream, todo, r.rc)>>,
     left |-> {}]

\* what run_interactive_rebase does once the rebase has returned r;
\* unlinkRaises: os.unlink(editor_script) raises
after_rebase(r, plan, todo, anchor, new_shas, unlinkRaises) ==
    LET rebase == Cmd(IF plan.root THEN "rebase --root" ELSE "rebase",
                      plan.upstream, todo, r.rc)
    IN  IF unlinkRaises
        THEN [repo |-> r.repo, commit_sha |-> anchor, ret |-> FALSE,
              plan |-> plan, cmds |-> <<rebase>>,
              left |-> leaked_msg_files(todo)]
        ELSE IF r.rc = 0
        THEN [repo |-> r.repo, commit_sha |-> new_anchor(anchor, new_shas),
              ret |-> TRUE, plan |-> plan, cmds |-> <<rebase>>, left |-> {}]
        ELSE [repo |-> git_rebase_abort(r.repo), commit_sha |-> anchor,
              ret |-> FALSE, plan |-> plan,
              cmds |-> <<rebase, Cmd("rebase --abort", 0, <<>>, 0)>>,
              left |-> {}]

\* "Fast-track top-drops": nothing to replay on top of a kept prefix
fast_track(plan) == plan.todo_shas = <<>> /\ plan.common_count > 0

\* the possible results of run_interactive_rebase: the repository, the
\* anchor, the return value, the temp files left on disk, and the plan and
\* git commands for the record
run_interactive_rebase(rp, anchor, lw, new_shas, rephrase_map, squash_shas, original_shas) ==
    LET display_shas == IF original_shas # None THEN original_shas ELSE lw
        plan == build_plan(rp, anchor, display_shas, new_shas, rephrase_map,
                           squash_shas)
        files == msg_files(rephrase_map, plan.todo_shas)
        todo == emit_todo(plan.todo_shas, files, squash_shas)
    IN  IF fast_track(plan)
        THEN {[repo |-> git_reset_hard(rp, plan.upstream), commit_sha |-> anchor,
               ret |-> TRUE, plan |-> plan,
               cmds |-> <<Cmd("reset --hard", plan.upstream, <<>>, 0)>>,
               left |-> {}]}
        ELSE {after_rebase(r, plan, todo, anchor, new_shas, unlinkRaises) :
                r \in git_rebase(rp, plan.upstream, todo),
                unlinkRaises \in BOOLEAN}

(***************************************************************************)
(* The split operations: perform_move_file_out, perform_split_all_commits. *)
(***************************************************************************)
\* "Upstream logic": the commit displayed below sha, or for the last row
\* the parent of sha; 0 is --root
split_upstream(rp, lw, sha) ==
    IF IndexOf(lw, sha) = Len(lw)
    THEN rev_parse_parent(rp, sha)
    ELSE lw[IndexOf(lw, sha) + 1]

RECURSIVE edit_todo_in_place(_, _, _, _)
\* a sequence editor that always puts the exec line in the place of the
\* line of target_sha
edit_todo_in_place(todo, target_sha, ins, keep) ==
    IF todo = <<>> THEN <<>>
    ELSE (IF Head(todo).sha = target_sha THEN <<ins>> ELSE <<Head(todo)>>)
         \o edit_todo_in_place(Tail(todo), target_sha, ins, keep)

RECURSIVE edit_todo(_, _, _, _)
\* the generated sequence editors: the exec line ins is put after the line
\* of target_sha (keep) or in its place
edit_todo(todo, target_sha, ins, keep) ==
    IF todo = <<>> THEN <<>>
    ELSE (IF Head(todo).sha = target_sha
          THEN (IF keep THEN <<Head(todo)>> ELSE <<>>) \o <<ins>>
          ELSE <<Head(todo)>>)
         \o edit_todo(Tail(todo), target_sha, ins, keep)

\* the rebase command of the split operations: no --autosquash
split_cmd(upstream, todo, rc) ==
    Cmd(IF upstream = 0 THEN "rebase -i --root" ELSE "rebase -i",
        upstream, todo, rc)

\* perform_move_file_out once the rebase has returned r
after_move_file_out(r, upstream, todo, anchor, unlinkRaises) ==
    IF unlinkRaises
    THEN [repo |-> r.repo, commit_sha |-> anchor, ret |-> FALSE,
          plan |-> NoPlan, cmds |-> <<split_cmd(upstream, todo, r.rc)>>,
          left |-> {}]
    ELSE IF r.rc = 0
    THEN [repo |-> r.repo, commit_sha |-> anchor, ret |-> TRUE,
          plan |-> NoPlan, cmds |-> <<split_cmd(upstream, todo, r.rc)>>,
          left |-> {}]
    ELSE [repo |-> git_rebase_abort(r.repo), commit_sha |-> anchor,
          ret |-> FALSE, plan |-> NoPlan,
          cmds |-> <<split_cmd(upstream, todo, r.rc),
                     Cmd("rebase --abort", 0, <<>>, 0)>>,
          left |-> {}]

\* the possible results of perform_move_file_out before load_history
perform_move_file_out(rp, anchor, lw, sha, filepath) ==
    LET upstream == split_upstream(rp, lw, sha)
        todo == edit_todo(git_todo(rp, upstream), sha,
                          [op |-> "exec move out", sha |-> sha,
                           msg |-> <<filepath>>], TRUE)
    IN  {after_move_file_out(r, upstream, todo, anchor, unlinkRaises) :
            r \in git_rebase(rp, upstream, todo), unlinkRaises \in BOOLEAN}

\* perform_split_all_commits once the rebase has returned r; an exception
\* of os.unlink(editor_script) is swallowed and skips the removal of the
\* split action script
after_split_all(r, upstream, todo, anchor, unlinkRaises) ==
    LET left == IF unlinkRaises THEN {"split script"} ELSE {}
    IN  IF r.rc = 0
        THEN [repo |-> r.repo, commit_sha |-> anchor, ret |-> TRUE,
              plan |-> NoPlan, cmds |-> <<split_cmd(upstream, todo, r.rc)>>,
              left |-> left]
        ELSE [repo |-> git_rebase_abort(r.repo), commit_sha |-> anchor,
              ret |-> FALSE, plan |-> NoPlan,
              cmds |-> <<split_cmd(upstream, todo, r.rc),
                         Cmd("rebase --abort", 0, <<>>, 0)>>,
              left |-> left]

\* the possible results of perform_split_all_commits before load_history;
\* hunks is the number of hunks the split script finds in the diff of sha
perform_split_all_commits(rp, anchor, lw, sha, hunks) ==
    LET upstream == split_upstream(rp, lw, sha)
        todo == edit_todo(git_todo(rp, upstream), sha,
                          [op |-> "exec split", sha |-> sha,
                           msg |-> <<hunks>>], FALSE)
    IN  {after_split_all(r, upstream, todo, anchor, unlinkRaises) :
            r \in git_rebase(rp, upstream, todo), unlinkRaises \in BOOLEAN}

(***************************************************************************)
(* The session: GitHistoryApp and CommitListWidget.                        *)
(***************************************************************************)
\* the rows of the displayed list (row 1 is the newest commit)
Rows == 1..Len(list_widget)

\* the message texts a dialog offers for the commits shas, and a new text
DialogMsgs(shas) == {<<NewMsg>>} \cup {repo.commits[x].msg : x \in shas}

\* the state a handler found, kept for the record of the last operation
Pre == [head |-> repo.head, marker |-> repo.marker, dirty |-> repo.dirty,
        list |-> list_widget, anchor |-> commit_sha]

\* the record of the last operation: its request and what it did, and the
\* base commit and the HEAD the session was opened on
Record(op, sha, new_shas, rephrase_map, squash_shas, res) ==
    [op |-> op, sha |-> sha, new_shas |-> new_shas,
     rephrase_map |-> rephrase_map, squash_shas |-> squash_shas,
     ret |-> res.ret, plan |-> res.plan, cmds |-> res.cmds,
     left |-> res.left, pre |-> Pre, opened_on |-> last.opened_on,
     opened_head |-> last.opened_head]

NotRun == [ret |-> FALSE, plan |-> NoPlan, cmds |-> <<>>, left |-> {}]

\* load_history: the list is cleared and refilled, so its items carry no
\* check state any more; the multi-select buttons and the mode flag are not
\* touched; the failsafe button is enabled or disabled
\* "Update Failsafe button state"
failsafe_enabled(rp, start) ==
    ~(get_head_sha(rp) = Slice(start, ShownLen) /\ ~has_uncommitted_changes(rp))

load_history(rp, anchor) ==
    /\ list_widget' = get_git_history(rp, anchor)
    /\ boxes' = FALSE
    /\ checked' = {}
    /\ failsafe_btn' = failsafe_enabled(rp, start_time_head)

\* exit_multi_select_mode
exit_multi_select_mode ==
    /\ multi_select_mode' = FALSE
    /\ merge_selected_btn' = FALSE
    /\ cancel_multi_btn' = FALSE

\* a rewrite through run_interactive_rebase followed by load_history
Rewrite(op, sha, new_shas, rephrase_map, squash_shas, original_shas, lw) ==
    \E res \in run_interactive_rebase(repo, commit_sha, lw, new_shas,
                                      rephrase_map, squash_shas,
                                      original_shas) :
        /\ repo' = res.repo
        /\ commit_sha' = res.commit_sha
        /\ load_history(res.repo, res.commit_sha)
        /\ last' = Record(op, sha, new_shas, rephrase_map, squash_shas, res)
        /\ nops' = nops + 1
        /\ UNCHANGED <<in_flight, start_time_head>>

\* an operation with the possible results res, followed by load_history
Finish(op, sha, results) ==
    \E res \in results :
        /\ repo' = res.repo
        /\ commit_sha' = res.commit_sha
        /\ load_history(res.repo, res.commit_sha)
        /\ last' = Record(op, sha, list_widget, NoMap, {}, res)
        /\ nops' = nops + 1
        /\ UNCHANGED <<in_flight, start_time_head>>

\* a session makes at most MaxOps rewrite attempts
HasRoom == nops < MaxOps

\* the context menu opens outside multi-select mode only
MenuOpen == ~multi_select_mode /\ HasRoom

\* refresh_btn: load_history
Refresh ==
    /\ load_history(repo, commit_sha)
    /\ UNCHANGED <<repo, commit_sha, multi_select_mode, merge_selected_btn,
                   cancel_multi_btn, last, nops, in_flight, start_time_head>>

\* CommitListWidget.dropEvent: the item of old_row is dropped at new_row
dropEvent ==
    \E old_row \in Rows, new_row \in Rows, reply \in BOOLEAN :
        /\ HasRoom
        /\ old_row # new_row
        /\ LET original_shas == list_widget
               new_shas == MoveItem(list_widget, old_row, new_row)
           IN  IF reply
               THEN \* perform_move(new_shas, original_shas)
                    /\ Rewrite("move", new_shas[new_row], new_shas, NoMap, {},
                               original_shas, new_shas)
                    /\ UNCHANGED <<multi_select_mode, merge_selected_btn,
                                   cancel_multi_btn>>
               ELSE /\ load_history(repo, commit_sha)
                    /\ last' = Record("move declined", 0, <<>>, NoMap, {},
                                      NotRun)
                    /\ UNCHANGED <<repo, commit_sha, multi_select_mode,
                                   merge_selected_btn, cancel_multi_btn, nops, in_flight, start_time_head>>

\* handle_drop with the dialog accepted, perform_drop
handle_drop ==
    \E row \in Rows :
        /\ MenuOpen
        /\ LET sha == list_widget[row]
           IN  Rewrite("drop", sha, Without(list_widget, sha), NoMap, {},
                       None, list_widget)
        /\ UNCHANGED <<multi_select_mode, merge_selected_btn, cancel_multi_btn>>

\* handle_rephrase with the dialog accepted, perform_rephrase
handle_rephrase ==
    \E row \in Rows :
        \E new_message \in DialogMsgs({list_widget[row]}) :
            /\ MenuOpen
            /\ new_message # repo.commits[list_widget[row]].msg
            /\ LET sha == list_widget[row]
               IN  Rewrite("rephrase", sha, list_widget,
                           [x \in {sha} |-> new_message], {}, None,
                           list_widget)
            /\ UNCHANGED <<multi_select_mode, merge_selected_btn,
                           cancel_multi_btn>>

\* perform_squash: sha_to_squash is squashed and carries the final message
perform_squash(op, sha_to_squash, final_msg) ==
    /\ Rewrite(op, sha_to_squash, list_widget,
               [x \in {sha_to_squash} |-> final_msg], {sha_to_squash}, None,
               list_widget)
    /\ UNCHANGED <<multi_select_mode, merge_selected_btn, cancel_multi_btn>>

\* handle_squash_above with the dialog accepted
handle_squash_above ==
    \E row \in Rows :
        /\ MenuOpen
        /\ row > 1
        /\ \E final_msg \in DialogMsgs({list_widget[row - 1], list_widget[row]}) :
               perform_squash("squash above", list_widget[row - 1], final_msg)

\* handle_squash_below with the dialog accepted
handle_squash_below ==
    \E row \in Rows :
        /\ MenuOpen
        /\ row < Len(list_widget)
        /\ \E final_msg \in DialogMsgs({list_widget[row], list_widget[row + 1]}) :
               perform_squash("squash below", list_widget[row], final_msg)

\* a handler returns after its message box: nothing was started
Rejected(op, sha) ==
    /\ last' = Record(op, sha, <<>>, NoMap, {}, NotRun)
    /\ UNCHANGED <<repo, commit_sha, list_widget, failsafe_btn, boxes, checked, nops,
                   in_flight, start_time_head>>

\* a check that lets every commit through
any_files(files) == TRUE

\* handle_split_commit goes on when the commit changes two files or more
has_other_files(files) == Cardinality(files) >= 2

\* handle_split_all_commits goes on when the commit changes one file
has_single_file(files) == Cardinality(files) = 1

\* handle_split_commit with a file chosen in the dialog,
\* perform_move_file_out
handle_split_commit ==
    \E row \in Rows :
        /\ MenuOpen
        /\ IF has_other_files(get_commit_files(repo, list_widget[row]))
           THEN \E selected_file \in get_commit_files(repo, list_widget[row]) :
                    Finish("move file out", list_widget[row],
                           perform_move_file_out(repo, commit_sha, list_widget,
                                                 list_widget[row],
                                                 selected_file))
           ELSE Rejected("move file out rejected", list_widget[row])
        /\ UNCHANGED <<multi_select_mode, merge_selected_btn, cancel_multi_btn>>

\* handle_split_all_commits, perform_split_all_commits
handle_split_all_commits ==
    \E row \in Rows, hunks \in 0..MaxHunks :
        /\ MenuOpen
        /\ IF has_single_file(get_commit_files(repo, list_widget[row]))
           THEN Finish("split all", list_widget[row],
                       perform_split_all_commits(repo, commit_sha, list_widget,
                                                 list_widget[row], hunks))
           ELSE Rejected("split all rejected", list_widget[row])
        /\ UNCHANGED <<multi_select_mode, merge_selected_btn, cancel_multi_btn>>

\* handle_reset with the question answered Yes, perform_reset
handle_reset ==
    \E row \in Rows :
        /\ MenuOpen
        /\ Finish("reset", list_widget[row],
                  {[repo |-> git_reset_hard(repo, list_widget[row]),
                    commit_sha |-> commit_sha, ret |-> TRUE, plan |-> NoPlan,
                    cmds |-> <<Cmd("reset --hard", list_widget[row], <<>>, 0)>>,
                    left |-> {}]})
        /\ UNCHANGED <<multi_select_mode, merge_selected_btn, cancel_multi_btn>>

\* handle_failsafe_reset: the question dialog, then perform_reset on
\* START_TIME_HEAD
handle_failsafe_reset ==
    \E reply \in BOOLEAN :
        /\ HasRoom
        /\ IF reply
           THEN Finish("failsafe reset", rev_parse(start_time_head),
                       {[repo |-> git_reset_hard(repo, rev_parse(start_time_head)),
                         commit_sha |-> commit_sha, ret |-> TRUE,
                         plan |-> NoPlan,
                         cmds |-> <<Cmd("reset --hard",
                                        rev_parse(start_time_head), <<>>, 0)>>,
                         left |-> {}]})
           ELSE Rejected("failsafe reset declined", 0)
        /\ UNCHANGED <<multi_select_mode, merge_selected_btn, cancel_multi_btn>>

\* enter_multi_select_mode, from the button or the context menu
enter_multi_select_mode ==
    /\ ~multi_select_mode
    /\ multi_select_mode' = TRUE
    /\ boxes' = TRUE
    /\ checked' = {}
    /\ merge_selected_btn' = FALSE
    /\ cancel_multi_btn' = TRUE
    /\ UNCHANGED <<repo, commit_sha, list_widget, failsafe_btn, last, nops, in_flight, start_time_head>>

\* the user ticks or unticks a check box; on_multi_select_changed
on_multi_select_changed ==
    \E row \in Rows :
        /\ boxes
        /\ checked' = IF row \in checked THEN checked \ {row}
                      ELSE checked \cup {row}
        /\ merge_selected_btn' = IF multi_select_mode
                                 THEN Cardinality(checked') >= 2
                                 ELSE merge_selected_btn
        /\ UNCHANGED <<repo, commit_sha, list_widget, failsafe_btn, multi_select_mode, boxes,
                       cancel_multi_btn, last, nops, in_flight, start_time_head>>

\* handle_cancel_multi_select
handle_cancel_multi_select ==
    /\ cancel_multi_btn
    /\ exit_multi_select_mode
    /\ boxes' = FALSE
    /\ checked' = {}
    /\ UNCHANGED <<repo, commit_sha, list_widget, failsafe_btn, last, nops, in_flight, start_time_head>>

\* a handler that accepts any selection
AnySelection(selected_indices) == TRUE

\* the contiguity check of handle_merge_selected on ascending row numbers
Contiguous(selected_indices) ==
    \A k \in 1..(Len(selected_indices) - 1) :
        selected_indices[k + 1] = selected_indices[k] + 1

\* the checked rows in list order
SelectedIndices == SelectSeq([i \in Rows |-> i], LAMBDA i : i \in checked)

\* perform_multi_squash: the newest selected commit is the pick target and
\* carries the final message, the others are marked squash
perform_multi_squash(selected_shas, accepted, final_msg) ==
    LET base_sha == selected_shas[1]
        squash_shas == Range(Tail(selected_shas))
    IN  /\ IF accepted
           THEN Rewrite("merge", base_sha, list_widget,
                        [x \in {base_sha} |-> final_msg], squash_shas, None,
                        list_widget)
           ELSE /\ load_history(repo, commit_sha)
                /\ last' = Record("merge cancelled", 0, <<>>, NoMap, {},
                                  NotRun)
                /\ UNCHANGED <<repo, commit_sha, nops, in_flight, start_time_head>>
        /\ exit_multi_select_mode

\* handle_merge_selected
handle_merge_selected ==
    /\ merge_selected_btn
    /\ HasRoom
    /\ LET selected_indices == SelectedIndices
           selected_shas == [k \in 1..Len(selected_indices) |->
                                list_widget[selected_indices[k]]]
       IN  IF Len(selected_indices) < 2
           THEN /\ last' = Record("merge too few", 0, <<>>, NoMap, {}, NotRun)
                /\ UNCHANGED <<repo, commit_sha, list_widget, failsafe_btn, multi_select_mode,
                               boxes, checked, merge_selected_btn,
                               cancel_multi_btn, nops, in_flight, start_time_head>>
           ELSE IF ~Contiguous(selected_indices)
           THEN /\ last' = Record("merge rejected", 0, <<>>, NoMap,
                                  Range(selected_shas), NotRun)
                /\ UNCHANGED <<repo, commit_sha, list_widget, failsafe_btn, multi_select_mode,
                               boxes, checked, merge_selected_btn,
                               cancel_multi_btn, nops, in_flight, start_time_head>>
           ELSE \E accepted \in BOOLEAN :
                    \E final_msg \in DialogMsgs(Range(selected_shas)) :
                        perform_multi_squash(selected_shas, accepted, final_msg)

(***************************************************************************)
(* Specifications.                                                         *)
(***************************************************************************)
\* a linear history of below + n commits, the session opened on commit
\* below + 1, with or without uncommitted changes in the working tree
InitOn(B, L, lens) ==
    \E below \in 0..B, n \in 1..L, d \in BOOLEAN, abbrev \in lens :
        LET cs == [i \in 1..(below + n) |->
                      [parent |-> i - 1, chg |-> <<i>>, msg |-> <<i>>]]
            rp == [commits |-> cs, head |-> below + n, marker |-> FALSE,
                   orig |-> 0, dirty |-> d, abbrev |-> abbrev]
        IN  /\ repo = rp
            /\ start_time_head = get_head_sha(rp)
            /\ failsafe_btn = failsafe_enabled(rp, get_head_sha(rp))
            /\ commit_sha = below + 1
            /\ list_widget = get_git_history(rp, below + 1)
            /\ multi_select_mode = FALSE
            /\ boxes = FALSE
            /\ checked = {}
            /\ merge_selected_btn = FALSE
            /\ cancel_multi_btn = FALSE
            /\ nops = 0
            /\ in_flight = <<>>
            /\ last = [op |-> "init", sha |-> 0, new_shas |-> <<>>,
                       rephrase_map |-> NoMap, squash_shas |-> {},
                       ret |-> FALSE, plan |-> NoPlan, cmds |-> <<>>,
                       left |-> {},
                       pre |-> [head |-> below + n, marker |-> FALSE,
                                dirty |-> d,
                                list |-> get_git_history(rp, below + 1),
                                anchor |-> below + 1],
                       opened_on |-> below + 1,
                       opened_head |-> below + n]

InitIn(L, lens) == InitOn(MaxBelow, L, lens)

\* a repository of git's default abbreviation length
InitWith(L) == InitIn(L, {DefaultAbbrev})

Init == InitWith(MaxLen)

Next ==
    \/ Refresh
    \/ dropEvent
    \/ handle_drop
    \/ handle_rephrase
    \/ handle_squash_above
    \/ handle_squash_below
    \/ handle_split_commit
    \/ handle_split_all_commits
    \/ handle_reset
    \/ enter_multi_select_mode
    \/ on_multi_select_changed
    \/ handle_cancel_multi_select
    \/ handle_merge_selected

Spec == Init /\ [][Next]_vars

\* a session that uses the multi-select widgets only
MergeNext ==
    \/ Refresh
    \/ enter_multi_select_mode
    \/ on_multi_select_changed
    \/ handle_cancel_multi_select
    \/ handle_merge_selected

MergeSpec == Init /\ [][MergeNext]_vars

(***************************************************************************)
(* Direct calls of the driver: run_interactive_rebase with any new order   *)
(* that is a permutation or a subset of the displayed order, followed by   *)
(* load_history as in perform_move.                                        *)
(***************************************************************************)
\* the order-preserving sub-lists of s
SubLists(s) ==
    {SelectSeq(s, LAMBDA x : x \in keep) : keep \in SUBSET Range(s)}

\* the rearrangements of s that move one item, as a drag does
Moves(s) ==
    {MoveItem(s, from, to) : from \in 1..Len(s), to \in 1..Len(s)}

\* the new orders a call is tried with: subsets and permutations of s
NewOrders(s) == SubLists(s) \cup Moves(s) \cup {Reverse(s)}

\* the annotations of a request: none, one rephrase, one squash with its
\* final message (as perform_squash passes them), or one squash alone
Annotations(shas) ==
    {[rephrase_map |-> NoMap, squash_shas |-> {}]}
    \cup {[rephrase_map |-> [x \in {t} |-> <<NewMsg>>], squash_shas |-> {}] :
            t \in shas}
    \cup {[rephrase_map |-> [x \in {t} |-> <<NewMsg>>], squash_shas |-> {t}] :
            t \in shas}
    \cup {[rephrase_map |-> NoMap, squash_shas |-> {t}] : t \in shas}

call_run_interactive_rebase ==
    \E new_shas \in NewOrders(list_widget) :
        \E a \in Annotations(Range(list_widget)) :
            /\ nops = 0
            /\ Rewrite("call", 0, new_shas, a.rephrase_map, a.squash_shas,
                       None, list_widget)
            /\ UNCHANGED <<multi_select_mode, merge_selected_btn,
                           cancel_multi_btn>>

PlanInit == InitWith(PlanLen)

PlanNext == call_run_interactive_rebase

PlanSpec == PlanInit /\ [][PlanNext]_vars

\* a session that uses the split operations, on commits of one file and on
\* the commits of several files a squash leaves
SplitNext ==
    \/ handle_squash_above
    \/ handle_split_commit
    \/ handle_split_all_commits

SplitSpec == Init /\ [][SplitNext]_vars

\* the same session on a branch with one more commit below the base commit,
\* so that the commit below the displayed range has a parent
DeepInit == InitOn(MaxBelow + 1, MaxLen, {DefaultAbbrev})

DeepSplitSpec == DeepInit /\ [][SplitNext]_vars

\* a session of rewrites and resets, in a repository of any abbreviation
\* length
FailsafeInit == InitIn(MaxLen, AbbrevLens)

FailsafeNext ==
    \/ Refresh
    \/ dropEvent
    \/ handle_drop
    \/ handle_rephrase
    \/ handle_reset
    \/ handle_failsafe_reset

FailsafeSpec == FailsafeInit /\ [][FailsafeNext]_vars

(***************************************************************************)
(* Direct calls of the History Reader: get_git_history with any base, one  *)
(* that names no commit included, at any tip a reset can leave.            *)
(***************************************************************************)
\* the names a base is drawn from: every commit and one that resolves to none
BaseNames == 1..(Len(repo.commits) + 1)

call_get_git_history ==
    \E base_sha \in BaseNames :
        /\ last' = [Record("history", base_sha,
                           get_git_history(repo, base_sha), NoMap, {}, NotRun)
                       EXCEPT !.ret = ~get_git_history_raises(repo, base_sha)]
        /\ UNCHANGED <<repo, commit_sha, list_widget, failsafe_btn, multi_select_mode,
                       boxes, checked, merge_selected_btn, cancel_multi_btn,
                       nops, in_flight, start_time_head>>

HistoryNext ==
    \/ call_get_git_history
    \/ handle_reset

HistorySpec == Init /\ [][HistoryNext]_vars

(***************************************************************************)
(* Emissions of the Instruction Emitter: the sequence editor program is    *)
(* written for a plan, and written again for the same plan as a retry      *)
(* does.  A rephrase message goes to a temp file whose name the system     *)
(* picks, and the amend line names that file.                              *)
(***************************************************************************)
\* the names tempfile.NamedTemporaryFile can return
TempNames == 1..MaxTemp

\* the names of the message files of one emission: one per file, distinct
named_temporary_files(files) ==
    {names \in [DOMAIN files -> TempNames] :
        \A x, y \in DOMAIN files : names[x] = names[y] => x = y}

\* the lines as the generated program writes them: 'pick <sha>',
\* 'squash <sha>' and 'exec git commit --amend -F <file>'
written_lines(todo, names) ==
    [i \in 1..Len(todo) |->
        IF todo[i].op = "exec"
        THEN [op |-> "exec", sha |-> 0, file |-> names[todo[i].sha]]
        ELSE [op |-> todo[i].op, sha |-> todo[i].sha, file |-> 0]]

\* the lines one emission for the plan can write
emissions(todo_shas, rephrase_map, squash_shas) ==
    LET files == msg_files(rephrase_map, todo_shas)
    IN  {written_lines(emit_todo(todo_shas, files, squash_shas), names) :
            names \in named_temporary_files(files)}

\* the emitter runs for the plan of a request
emit_for_plan ==
    \E new_shas \in NewOrders(list_widget) :
        \E a \in Annotations(Range(list_widget)) :
            LET plan == build_plan(repo, commit_sha, list_widget, new_shas,
                                   a.rephrase_map, a.squash_shas)
            IN  /\ last.op = "init"
                /\ \E lines \in emissions(plan.todo_shas, a.rephrase_map,
                                           a.squash_shas) :
                       last' = Record("emit", 0, new_shas, a.rephrase_map,
                                      a.squash_shas,
                                      [ret |-> FALSE, plan |-> plan,
                                       cmds |-> <<Cmd("emit", 0, lines, 0)>>,
                                       left |-> {}])
                /\ UNCHANGED <<repo, commit_sha, list_widget, failsafe_btn,
                               multi_select_mode, boxes, checked,
                               merge_selected_btn, cancel_multi_btn, nops,
                               in_flight, start_time_head>>

\* the emitter runs again for the same plan
emit_again ==
    /\ last.op = "emit"
    /\ Len(last.cmds) = 1
    /\ \E lines \in emissions(last.plan.todo_shas, last.rephrase_map,
                               last.squash_shas) :
           last' = [last EXCEPT !.cmds = Append(@, Cmd("emit", 0, lines, 0))]
    /\ UNCHANGED <<repo, commit_sha, list_widget, failsafe_btn, multi_select_mode, boxes,
                   checked, merge_selected_btn, cancel_multi_btn, nops,
                   in_flight, start_time_head>>

EmitNext ==
    \/ emit_for_plan
    \/ emit_again

EmitSpec == Init /\ [][EmitNext]_vars

(***************************************************************************)
(* The GUI thread.  Every handler runs on the one thread of the Qt event   *)
(* loop and starts git with subprocess.run, which returns when the process *)
(* has exited: a handler that started a rewrite is blocked in that call,   *)
(* and the loop dispatches the next user event after the handler returned. *)
(* in_flight holds the rewrites whose subprocess has been started and has  *)
(* not returned, with the result each will deliver.                        *)
(***************************************************************************)
\* an event loop that dispatches events while a handler is in subprocess.run
dispatches_always == TRUE

\* the event loop dispatches a user event when no handler is running
event_loop_dispatches == in_flight = <<>>

\* the handler calls subprocess.run and blocks in it
subprocess_run(op, sha, new_shas, rephrase_map, res) ==
    /\ in_flight' = Append(in_flight,
                           [res |-> res,
                            rec |-> Record(op, sha, new_shas, rephrase_map,
                                           {}, res)])
    /\ UNCHANGED <<repo, commit_sha, list_widget, failsafe_btn, multi_select_mode, boxes,
                   checked, merge_selected_btn, cancel_multi_btn, last, nops,
                   start_time_head>>

\* a user event starts handle_rephrase, which reaches the rebase
start_rephrase ==
    \E row \in Rows :
        \E new_message \in DialogMsgs({list_widget[row]}) :
            /\ event_loop_dispatches
            /\ MenuOpen
            /\ new_message # repo.commits[list_widget[row]].msg
            /\ LET sha == list_widget[row]
                   rephrase_map == [x \in {sha} |-> new_message]
               IN  \E res \in run_interactive_rebase(repo, commit_sha,
                                                     list_widget, list_widget,
                                                     rephrase_map, {}, None) :
                       /\ res.cmds # <<>>
                       /\ subprocess_run("rephrase", sha, list_widget,
                                         rephrase_map, res)

\* a user event starts handle_drop, which reaches the rebase or the reset
start_drop ==
    \E row \in Rows :
        /\ event_loop_dispatches
        /\ MenuOpen
        /\ LET sha == list_widget[row]
               new_shas == Without(list_widget, sha)
           IN  \E res \in run_interactive_rebase(repo, commit_sha,
                                                 list_widget, new_shas,
                                                 NoMap, {}, None) :
                   /\ res.cmds # <<>>
                   /\ subprocess_run("drop", sha, new_shas, NoMap, res)

\* a user event starts handle_reset, which reaches the reset
start_reset ==
    \E row \in Rows :
        /\ event_loop_dispatches
        /\ MenuOpen
        /\ LET sha == list_widget[row]
           IN  subprocess_run("reset", sha, list_widget, NoMap,
                   [repo |-> git_reset_hard(repo, sha),
                    commit_sha |-> commit_sha, ret |-> TRUE, plan |-> NoPlan,
                    cmds |-> <<Cmd("reset --hard", sha, <<>>, 0)>>,
                    left |-> {}])

\* subprocess.run returns and the handler runs to its end: load_history
subprocess_returns ==
    /\ in_flight # <<>>
    /\ LET done == Head(in_flight)
       IN  /\ repo' = done.res.repo
           /\ commit_sha' = done.res.commit_sha
           /\ load_history(done.res.repo, done.res.commit_sha)
           /\ last' = done.rec
    /\ nops' = nops + 1
    /\ in_flight' = Tail(in_flight)
    /\ UNCHANGED <<multi_select_mode, merge_selected_btn, cancel_multi_btn,
                   start_time_head>>

ThreadNext ==
    \/ start_rephrase
    \/ start_drop
    \/ start_reset
    \/ subprocess_returns

ThreadSpec == Init /\ [][ThreadNext]_vars

(***************************************************************************)
(* Vocabulary of the properties.                                           *)
(***************************************************************************)
RewriteOps == {"move", "drop", "rephrase", "squash above", "squash below",
               "merge", "call"}

\* the last operation was a rewrite through the driver
Rewrote == last.op \in RewriteOps

\* the displayed order the last operation found, and the one it asked for,
\* oldest first
OldOrder == Reverse(last.pre.list)

NewOrder == Reverse(last.new_shas)

\* the commits of the branch below the range the last operation found
BelowRange ==
    Ancestry(repo.commits, repo.commits[last.pre.list[Len(last.pre.list)]].parent)

\* the changes of each commit of s, one entry per commit
ChangeList(s) == [i \in 1..Len(s) |-> repo.commits[s[i]].chg]

\* the last operation ran a rebase, and the rebase exited non-zero
RanRebase ==
    last.cmds # <<>> /\ last.cmds[1].cmd \in {"rebase", "rebase --root"}

RebaseFailed == RanRebase /\ last.cmds[1].rc # 0

AbortIssued == \E i \in 1..Len(last.cmds) : last.cmds[i].cmd = "rebase --abort"

(***************************************************************************)
(* C1.  After a successful reorder, drop or rephrase the displayed range,  *)
(* read oldest first by the change each commit carries, is the requested   *)
(* new order, and the branch holds these commits on top of the untouched   *)
(* history below the range: nothing else is added or removed.              *)
(***************************************************************************)
C1_RequestedOrderSurvives ==
    (last.op \in {"move", "drop", "rephrase"} /\ last.ret) =>
        /\ ChangeList(Reverse(list_widget)) = ChangeList(NewOrder)
        /\ Reverse(Ancestry(repo.commits, repo.head))
              = Reverse(BelowRange) \o Reverse(list_widget)

(***************************************************************************)
(* C3.  After a successful rewrite the BaseAnchor is the commit reached by *)
(* counting surviving_count - 1 commits back from the new tip, where the   *)
(* squashed-away commits are not counted.                                  *)
(***************************************************************************)
surviving_count ==
    Len(last.new_shas) - Cardinality(last.squash_shas \cap Range(last.new_shas))

C3_AnchorIsNewBottom ==
    (Rewrote /\ last.ret /\ surviving_count > 0) =>
        /\ surviving_count <= Len(Ancestry(repo.commits, repo.head))
        /\ commit_sha = Ancestry(repo.commits, repo.head)[surviving_count]

(***************************************************************************)
(* C4.  A rebase that exits non-zero is followed by an abort before the    *)
(* operation returns, and no rewrite operation returns with the            *)
(* repository in a mid-rebase state.                                       *)
(***************************************************************************)
C4_NeverLeftMidRebase ==
    Rewrote =>
        /\ RebaseFailed => AbortIssued
        /\ ~repo.marker

(***************************************************************************)
(* C5.  When the rebase of a rewrite exits non-zero, HEAD is afterwards    *)
(* what it was before the operation, no rebase is in progress and the      *)
(* working state is unchanged.                                             *)
(***************************************************************************)
C5_FailureLeavesRepositoryUntouched ==
    (Rewrote /\ RebaseFailed) =>
        /\ repo.head = last.pre.head
        /\ ~repo.marker
        /\ repo.dirty = last.pre.dirty

(***************************************************************************)
(* C2.  A successful squash of a set of adjacent displayed commits (squash *)
(* above, squash below, merge selected) emits the oldest member as a pick  *)
(* and every other member as a squash, and the branch afterwards holds one *)
(* commit that carries exactly the changes of the set, under the chosen    *)
(* final message; no commit outside the set has absorbed any of them.      *)
(***************************************************************************)
SquashOps == {"squash above", "squash below", "merge"}

\* the commits the last squash request selected
SelectedSet ==
    IF last.op = "merge"
    THEN {last.sha} \cup last.squash_shas
    ELSE {last.sha, last.pre.list[IndexOf(last.pre.list, last.sha) + 1]}

OldestSelected ==
    CHOOSE x \in SelectedSet :
        \A y \in SelectedSet :
            IndexOf(last.pre.list, y) <= IndexOf(last.pre.list, x)

SelectedChanges == UNION {Range(repo.commits[x].chg) : x \in SelectedSet}

C2_SquashCollapsesAtOldest ==
    (last.op \in SquashOps /\ last.ret) =>
        LET todo == last.cmds[1].todo
            branch == Ancestry(repo.commits, repo.head)
        IN  /\ RanRebase
            /\ \A x \in SelectedSet :
                   \E i \in 1..Len(todo) :
                       /\ todo[i].sha = x
                       /\ todo[i].op = IF x = OldestSelected THEN "pick"
                                       ELSE "squash"
            /\ \E i \in 1..Len(branch) :
                   /\ Range(repo.commits[branch[i]].chg) = SelectedChanges
                   /\ repo.commits[branch[i]].msg = last.rephrase_map[last.sha]
            /\ \A i \in 1..Len(branch) :
                   \/ Range(repo.commits[branch[i]].chg) = SelectedChanges
                   \/ Range(repo.commits[branch[i]].chg) \cap SelectedChanges = {}

(***************************************************************************)
(* C6.  For a call with any new order that is a subset or a permutation of *)
(* the old order, the unchanged prefix of the plan is the longest run of   *)
(* oldest-first positions where both orders hold the same SHA and that SHA *)
(* is neither a rephrase target nor in the squash list.  Unless the squash *)
(* correction applies (it takes one commit off the prefix), the upstream   *)
(* is the last commit of the prefix, the replay list is the new order      *)
(* after the prefix, the rebase is issued with exactly these, and the      *)
(* first replayed commit is one that changed.                              *)
(***************************************************************************)
Unchanged(i) ==
    /\ OldOrder[i] = NewOrder[i]
    /\ OldOrder[i] \notin DOMAIN last.rephrase_map
    /\ OldOrder[i] \notin last.squash_shas

LongestRun ==
    CHOOSE k \in 0..Min(Len(OldOrder), Len(NewOrder)) :
        /\ \A i \in 1..k : Unchanged(i)
        /\ k < Min(Len(OldOrder), Len(NewOrder)) => ~Unchanged(k + 1)

SquashCorrected ==
    /\ LongestRun > 0
    /\ LongestRun < Len(NewOrder)
    /\ NewOrder[LongestRun + 1] \in last.squash_shas

\* the commits named by the pick and squash lines of a todo, in order
RECURSIVE Replayed(_)
Replayed(todo) ==
    IF todo = <<>> THEN <<>>
    ELSE (IF Head(todo).op = "exec" THEN <<>> ELSE <<Head(todo).sha>>)
         \o Replayed(Tail(todo))

C6_PrefixIsLongestUnchangedRun ==
    last.op = "call" =>
        LET k == LongestRun
            plan == last.plan
        IN  IF SquashCorrected
            THEN plan.common_count = k - 1
            ELSE /\ plan.common_count = k
                 /\ k > 0 => (plan.upstream = OldOrder[k] /\ ~plan.root)
                 /\ plan.todo_shas = SubSeq(NewOrder, k + 1, Len(NewOrder))
                 /\ RanRebase =>
                        /\ last.cmds[1].target = plan.upstream
                        /\ Replayed(last.cmds[1].todo) = plan.todo_shas
                 /\ plan.todo_shas # <<>> =>
                        \/ plan.todo_shas[1] \in DOMAIN last.rephrase_map
                        \/ plan.todo_shas[1] \in last.squash_shas
                        \/ OldOrder[k + 1] # plan.todo_shas[1]

\* a call that keeps a prefix and stops it at a rephrase target in place
C6_Witness ==
    /\ last.op = "call"
    /\ last.ret
    /\ ~SquashCorrected
    /\ LongestRun >= 1
    /\ LongestRun < Len(NewOrder)
    /\ NewOrder[LongestRun + 1] = OldOrder[LongestRun + 1]
    /\ NewOrder[LongestRun + 1] \in DOMAIN last.rephrase_map
    /\ last.cmds[1].cmd = "rebase"

(***************************************************************************)
(* C7.  The fast path.                                                     *)
(***************************************************************************)
ResetIssued == last.cmds # <<>> /\ last.cmds[1].cmd = "reset --hard"

\* C7 as stated: whenever the new order has nothing beyond the common
\* prefix, the empty prefix included, the call is a hard reset to the
\* anchor and no rebase is invoked.
C7_EmptyReplayAlwaysResets ==
    (last.op = "call" /\ last.plan.todo_shas = <<>>) =>
        /\ ResetIssued
        /\ ~RanRebase

\* What the driver does: a call with nothing to replay is a hard reset to
\* the last commit of the prefix, without any rebase, exactly when the
\* prefix is not empty.  With an empty prefix (every displayed commit
\* dropped) the rebase is invoked with an empty todo, exits non-zero and is
\* aborted, and HEAD stays where it was.  No call with commits to replay is
\* a reset.
TruncationResetsOnKeptPrefix ==
    last.op = "call" =>
        IF last.plan.todo_shas = <<>>
        THEN IF last.plan.common_count > 0
             THEN /\ last.cmds = <<Cmd("reset --hard",
                                       OldOrder[last.plan.common_count],
                                       <<>>, 0)>>
                  /\ repo.head = OldOrder[last.plan.common_count]
                  /\ last.ret
             ELSE /\ RebaseFailed
                  /\ last.cmds[1].todo = <<>>
                  /\ ~ResetIssued
                  /\ ~last.ret
                  /\ repo.head = last.pre.head
        ELSE ~ResetIssued

\* the newest displayed commits are dropped and the call moved HEAD back
TruncationReset ==
    /\ last.op = "call"
    /\ last.plan.todo_shas = <<>>
    /\ last.plan.common_count > 0
    /\ ResetIssued
    /\ repo.head # last.pre.head

(***************************************************************************)
(* C8.  Five displayed commits [c5, c4, c3, c2, c1], no rephrase, no       *)
(* squash.                                                                 *)
(***************************************************************************)
PlainCallOnFive ==
    /\ last.op = "call"
    /\ Len(last.pre.list) = 5
    /\ last.rephrase_map = NoMap
    /\ last.squash_shas = {}

\* C8 as stated: with new order [c5, c4, c3] the plan is a hard reset to
\* c3 and not a rebase replay.
C8_KeepNewestThreeResets ==
    (PlainCallOnFive /\ last.new_shas = SubSeq(last.pre.list, 1, 3)) =>
        /\ last.cmds = <<Cmd("reset --hard", last.pre.list[3], <<>>, 0)>>
        /\ ~RanRebase

\* C8 amended: with new order [c3, c2, c1] (c5 and c4 dropped from the
\* tip) the plan is a hard reset to c3 and no rebase; with new order
\* [c5, c4, c3] the prefix is empty and c3, c4, c5 are replayed by a rebase
\* onto the parent of c1.
C8_KeepOldestThreeResets ==
    /\ (PlainCallOnFive /\ last.new_shas = SubSeq(last.pre.list, 3, 5)) =>
           /\ last.cmds = <<Cmd("reset --hard", last.pre.list[3], <<>>, 0)>>
           /\ repo.head = last.pre.list[3]
           /\ last.ret
    /\ (PlainCallOnFive /\ last.new_shas = SubSeq(last.pre.list, 1, 3)) =>
           /\ RanRebase
           /\ last.cmds[1].target = repo.commits[last.pre.list[5]].parent
           /\ Replayed(last.cmds[1].todo) = Reverse(SubSeq(last.pre.list, 1, 3))

C8_Witness ==
    /\ PlainCallOnFive
    /\ last.new_shas = SubSeq(last.pre.list, 3, 5)
    /\ ResetIssued
    /\ repo.head = last.pre.list[3]

(***************************************************************************)
(* C9.  A call whose new order is the displayed order, with no rephrase    *)
(* and no squash, has an empty replay list and the newest commit as its    *)
(* anchor, invokes no rebase and leaves HEAD, the history and the working  *)
(* state as they were.                                                     *)
(***************************************************************************)
C9_SameOrderIsNoOp ==
    (/\ last.op = "call"
     /\ last.new_shas = last.pre.list
     /\ last.rephrase_map = NoMap
     /\ last.squash_shas = {}) =>
        /\ last.plan.todo_shas = <<>>
        /\ last.plan.upstream = last.pre.list[1]
        /\ ~RanRebase
        /\ repo.head = last.pre.head
        /\ repo.marker = last.pre.marker
        /\ repo.dirty = last.pre.dirty

(***************************************************************************)
(* C10.  A merge request whose checked commits are not all adjacent in the *)
(* displayed order is rejected before any plan is built: no git command is *)
(* issued and the repository and the BaseAnchor are unchanged.  A merge    *)
(* that reaches the driver, or its dialog, has an adjacent selection.      *)
(***************************************************************************)
\* the rows of the displayed list that held the commits of set S
RowsOf(S) == {IndexOf(last.pre.list, x) : x \in S}

Adjacent(S) ==
    \A i, j \in RowsOf(S) :
        \A m \in i..j : m \in RowsOf(S)

C10_NonAdjacentMergeRejected ==
    /\ last.op = "merge rejected" =>
           /\ ~Adjacent(last.squash_shas)
           /\ last.cmds = <<>>
           /\ last.plan = NoPlan
           /\ repo.head = last.pre.head
           /\ repo.marker = last.pre.marker
           /\ repo.dirty = last.pre.dirty
           /\ commit_sha = last.pre.anchor
    /\ last.op = "merge" => Adjacent(SelectedSet)

C10_Witness ==
    /\ last.op = "merge rejected"
    /\ Cardinality(last.squash_shas) >= 2
    /\ last.cmds = <<>>

(***************************************************************************)
(* C11.  When an operation returns, by whatever path, none of the temp     *)
(* files it created is still on disk.                                      *)
(***************************************************************************)
C11_NoTempFileLeft == last.left = {}

(***************************************************************************)
(* C12.  After a successful split of the single-file commit X into its     *)
(* hunks, the branch holds, oldest first, the history below the range and  *)
(* then the commits of the range in their order, with X replaced by one    *)
(* commit per hunk (X itself stays when its diff has no textual hunk):     *)
(* no hunk is lost or duplicated and every other commit, the parent of X   *)
(* included, survives in its position.                                     *)
(***************************************************************************)
\* the number of hunks the split script of the last operation found
HunksFound ==
    LET todo == last.cmds[1].todo
    IN  todo[CHOOSE i \in 1..Len(todo) : todo[i].op = "exec split"].msg[1]

\* the changes X is replaced by
HunkChanges(X, h) ==
    IF h = 0 THEN <<repo.commits[X].chg>>
    ELSE [j \in 1..h |-> <<hunk_id(repo.commits[X].chg[1], j)>>]

RECURSIVE SplitIn(_, _, _)
\* the changes of the commits s, one entry per commit, with X split
SplitIn(s, X, h) ==
    IF s = <<>> THEN <<>>
    ELSE (IF Head(s) = X THEN HunkChanges(X, h)
          ELSE <<repo.commits[Head(s)].chg>>)
         \o SplitIn(Tail(s), X, h)

C12_SplitReplacesCommitByItsHunks ==
    (last.op = "split all" /\ last.ret) =>
        ChangeList(Reverse(Ancestry(repo.commits, repo.head)))
            = ChangeList(Reverse(BelowRange))
              \o SplitIn(OldOrder, last.sha, HunksFound)

(***************************************************************************)
(* C13.  After a successful rephrase of commit A to the message B the      *)
(* branch holds, in the place of the range, as many commits as before: the *)
(* one at the position of A has exactly the message B and the change of A, *)
(* and every other one has the message and the change of the commit that   *)
(* was at its position.  The displayed list shows exactly these commits.   *)
(***************************************************************************)
\* the newest n commits of the branch, newest first
TopOfBranch(n) ==
    LET a == Ancestry(repo.commits, repo.head)
    IN  [i \in 1..Min(n, Len(a)) |-> a[i]]

\* commit now is what commit was, with the message B when it was A
RephrasedFrom(now, was) ==
    /\ repo.commits[now].chg = repo.commits[was].chg
    /\ repo.commits[now].msg = IF was = last.sha
                               THEN last.rephrase_map[last.sha]
                               ELSE repo.commits[was].msg

C13_RephraseChangesOneMessage ==
    (last.op = "rephrase" /\ last.ret) =>
        LET n == Len(last.pre.list)
            top == TopOfBranch(n)
        IN  /\ Len(top) = n
            /\ \A i \in 1..n : RephrasedFrom(top[i], last.pre.list[i])
            /\ repo.commits[top[n]].parent
                   = repo.commits[last.pre.list[n]].parent
            /\ list_widget = top

C13_Witness ==
    /\ last.op = "rephrase"
    /\ last.ret
    /\ Len(last.pre.list) >= 2
    /\ last.sha # last.pre.list[1]
    /\ repo.commits[repo.head].msg = repo.commits[last.pre.list[1]].msg

(***************************************************************************)
(* C14.  At most one rewrite operation, a rebase or a reset subprocess, is *)
(* in flight at any time: no user-triggered rewrite starts between the     *)
(* start of the subprocess of a rewrite and its return.                    *)
(***************************************************************************)
C14_OneRewriteInFlight == Len(in_flight) <= 1

C14_Witness ==
    /\ nops = 1
    /\ Len(in_flight) = 1
    /\ in_flight[1].res.cmds[1].cmd \in {"rebase", "rebase --root"}

(***************************************************************************)
(* C15.  Every rebase the tool starts, for a reorder, drop, squash,        *)
(* rephrase, move-one-file-out or split-all-hunks, is started with         *)
(* --autosquash, and with --root exactly when the commit the rebase is     *)
(* based on has no parent.                                                 *)
(***************************************************************************)
SplitOps == {"move file out", "split all"}

RebaseForms == {"rebase", "rebase --root", "rebase -i", "rebase -i --root"}

AutosquashForms == {"rebase", "rebase --root"}

RootForms == {"rebase --root", "rebase -i --root"}

\* the rebase of the last operation starts from a commit without parent:
\* the base of the session when the whole range is replayed, the split
\* commit when it is the last row
BaseHasNoParent ==
    IF last.op \in SplitOps
    THEN /\ last.sha = last.pre.list[Len(last.pre.list)]
         /\ repo.commits[last.sha].parent = 0
    ELSE /\ last.plan.common_count = 0
         /\ repo.commits[last.pre.anchor].parent = 0

C15_RebaseWithAutosquashAndRoot ==
    \A i \in 1..Len(last.cmds) :
        last.cmds[i].cmd \in RebaseForms =>
            /\ last.cmds[i].cmd \in AutosquashForms
            /\ last.cmds[i].cmd \in RootForms <=> BaseHasNoParent

(***************************************************************************)
(* C16.  get_git_history fails for a base that does not resolve and never  *)
(* returns a commit list for it.  For a base with a parent it returns the  *)
(* commits reachable from HEAD and not from that parent, newest first,     *)
(* the base included when it is on the branch; it returns the whole        *)
(* history of HEAD only when the base is a commit without parent.          *)
(***************************************************************************)
\* the last call returned a list, and the list it returned
Returned == last.op = "history" /\ last.ret

ReturnedList == last.new_shas

C16_HistoryFailsOnUnresolvedBase ==
    /\ (last.op = "history" /\ ~Resolves(repo, last.sha)) => ~last.ret
    /\ (Returned /\ Resolves(repo, last.sha)) =>
           IF repo.commits[last.sha].parent # 0
           THEN /\ ReturnedList
                      = git_log_range(repo, repo.commits[last.sha].parent,
                                      repo.head)
                /\ last.sha \in Range(Ancestry(repo.commits, repo.head))
                       => last.sha \in Range(ReturnedList)
           ELSE ReturnedList = Ancestry(repo.commits, repo.head)

(***************************************************************************)
(* C17.  After every completed operation, a successful or failed rewrite,  *)
(* a declined move, a reset or a refresh, the displayed list is the chain  *)
(* of the branch from its tip down to and including the BaseAnchor commit, *)
(* newest first: the anchor is the last displayed entry.                   *)
(***************************************************************************)
\* the BaseAnchor is a commit of the branch
AnchorOnBranch == commit_sha \in Range(Ancestry(repo.commits, repo.head))

\* the chain of the branch from the tip down to commit c
ChainDownTo(c) ==
    LET a == Ancestry(repo.commits, repo.head)
    IN  SubSeq(a, 1, IndexOf(a, c))

C17_DisplayIsChainDownToAnchor ==
    /\ AnchorOnBranch
    /\ list_widget = ChainDownTo(commit_sha)
    /\ list_widget[Len(list_widget)] = commit_sha

(***************************************************************************)
(* C18.  A rewrite whose plan has no unchanged prefix rebases onto the     *)
(* parent of the bottom-most commit of the display it found, with --root   *)
(* when that commit has no parent, and replays the entire new order,       *)
(* oldest first; earlier successful rewrites of the session change         *)
(* nothing in this.                                                        *)
(***************************************************************************)
\* the bottom-most commit of the display the last operation found
BottomDisplayed == last.pre.list[Len(last.pre.list)]

NoUnchangedPrefix == Rewrote /\ RanRebase /\ last.plan.common_count = 0

C18_FullReplayStartsBelowDisplay ==
    NoUnchangedPrefix =>
        /\ last.plan.upstream = repo.commits[BottomDisplayed].parent
        /\ last.plan.root <=> repo.commits[BottomDisplayed].parent = 0
        /\ last.cmds[1].target = last.plan.upstream
        /\ last.cmds[1].cmd = "rebase --root" <=> last.plan.root
        /\ last.plan.todo_shas = NewOrder

(***************************************************************************)
(* C19.  When the first commit to replay is in the squash set the replay   *)
(* window is extended by exactly one older commit, or, when there is none  *)
(* in the range, the whole range is replayed.  So no emitted instruction   *)
(* list begins with a squash, and every squash line has a pick line        *)
(* before it.                                                              *)
(***************************************************************************)
\* the window of the last plan is the longest run, corrected by one commit
WindowExtendedByOne ==
    SquashCorrected =>
        IF LongestRun > 1
        THEN /\ last.plan.common_count = LongestRun - 1
             /\ last.plan.todo_shas
                    = SubSeq(NewOrder, LongestRun, Len(NewOrder))
        ELSE /\ last.plan.common_count = 0
             /\ last.plan.todo_shas = NewOrder

\* every squash line of the emitted list has a pick line before it
SquashFollowsPick ==
    LET todo == last.cmds[1].todo
    IN  /\ todo # <<>> => todo[1].op # "squash"
        /\ \A i \in 1..Len(todo) :
               todo[i].op = "squash" => \E j \in 1..(i - 1) : todo[j].op = "pick"

C19_SquashNeverOpensTheList ==
    (Rewrote /\ RanRebase) =>
        /\ WindowExtendedByOne
        /\ SquashFollowsPick

(***************************************************************************)
(* C20.  The todo of a rebase holds, for each commit of the replay         *)
(* sequence, oldest first, exactly one line, squash when the commit is in  *)
(* the squash set and pick otherwise; the line is immediately followed by  *)
(* exactly one amend line if and only if the commit is a rephrase target;  *)
(* there are no other lines, and every rephrase target of the new order    *)
(* has its amend line.                                                     *)
(***************************************************************************)
EmittedTodo == last.cmds[1].todo

\* the new order without the unchanged prefix of the plan
ReplaySequence ==
    SubSeq(NewOrder, last.plan.common_count + 1, Len(NewOrder))

\* line i is the amend line of the commit of the line before it
AmendsLineBefore(i) ==
    /\ i > 1
    /\ EmittedTodo[i - 1].op # "exec"
    /\ EmittedTodo[i - 1].sha = EmittedTodo[i].sha
    /\ EmittedTodo[i].sha \in DOMAIN last.rephrase_map
    /\ EmittedTodo[i].msg = last.rephrase_map[EmittedTodo[i].sha]

C20_TodoIsOneLinePerCommit ==
    (Rewrote /\ RanRebase) =>
        /\ Replayed(EmittedTodo) = ReplaySequence
        /\ \A i \in 1..Len(EmittedTodo) :
               LET line == EmittedTodo[i]
               IN  /\ line.op \in {"pick", "squash", "exec"}
                   /\ line.op = "exec" => AmendsLineBefore(i)
                   /\ line.op # "exec" =>
                          /\ line.op = "squash" <=> line.sha \in last.squash_shas
                          /\ line.sha \in DOMAIN last.rephrase_map
                                 <=> /\ i < Len(EmittedTodo)
                                     /\ EmittedTodo[i + 1].op = "exec"
        /\ \A t \in DOMAIN last.rephrase_map \cap Range(NewOrder) :
               \E i \in 1..Len(EmittedTodo) :
                   EmittedTodo[i].op = "exec" /\ EmittedTodo[i].sha = t

C20_Witness ==
    /\ Rewrote
    /\ RanRebase
    /\ last.plan.common_count > 0
    /\ Len(EmittedTodo) >= 4
    /\ \E i \in 2..Len(EmittedTodo) :
           /\ EmittedTodo[i].op = "squash"
           /\ i < Len(EmittedTodo)
           /\ EmittedTodo[i + 1].op = "exec"
    /\ \E i \in 1..Len(EmittedTodo) :
           /\ EmittedTodo[i].op = "pick"
           /\ EmittedTodo[i].sha \notin DOMAIN last.rephrase_map

(***************************************************************************)
(* C21.  The commits of the unchanged prefix of a plan are not replayed:   *)
(* they are not in the todo, and after the operation, successful or not,   *)
(* they are on the branch with the SHAs and at the positions they had.     *)
(***************************************************************************)
\* the unchanged prefix of the last plan, oldest first
PrefixOfPlan == SubSeq(OldOrder, 1, last.plan.common_count)

\* the branch, oldest first
BranchOldestFirst == Reverse(Ancestry(repo.commits, repo.head))

C21_PrefixIsNotReplayed ==
    (Rewrote /\ last.cmds # <<>>) =>
        /\ \A i \in 1..Len(last.cmds[1].todo) :
               last.cmds[1].todo[i].sha \notin Range(PrefixOfPlan)
        /\ LET below == Len(BelowRange)
           IN  /\ Len(BranchOldestFirst) >= below + Len(PrefixOfPlan)
               /\ \A i \in 1..Len(PrefixOfPlan) :
                      BranchOldestFirst[below + i] = PrefixOfPlan[i]

(***************************************************************************)
(* C22.  The BaseAnchor changes only on the success path of a rebase: no   *)
(* step of a rewrite that fails or raises, of a declined move or a         *)
(* cancelled merge, of a refresh, of a split or of a reset changes it.     *)
(***************************************************************************)
\* the step just taken was a rewrite whose rebase exited with 0 and which
\* returned True
RebaseSucceeded ==
    /\ Rewrote
    /\ RanRebase
    /\ last.cmds[1].rc = 0
    /\ Len(last.cmds) = 1
    /\ last.ret

C22_AnchorMovesOnlyOnRebaseSuccess ==
    [][commit_sha' # commit_sha => RebaseSucceeded']_vars

C22_Witness ==
    /\ RebaseSucceeded
    /\ commit_sha # last.pre.anchor

(***************************************************************************)
(* C23.  After a successful move of file F out of commit X, which changes  *)
(* F and at least one other file, the branch holds, oldest first, the      *)
(* history below the range and then the commits of the range in their      *)
(* order with X replaced by two consecutive commits: one with the message  *)
(* of X and the changes of X to the files other than F, then one with the  *)
(* synthesized message and the changes of X to F.  The rebase was started  *)
(* on the parent of X, or with --root when X has none.                     *)
(***************************************************************************)
\* the file the last move-one-file-out took out
FileMoved ==
    LET todo == last.cmds[1].todo
    IN  todo[CHOOSE i \in 1..Len(todo) : todo[i].op = "exec move out"].msg[1]

\* what a commit carries: its changes and its message
Carried(c) == [chg |-> repo.commits[c].chg, msg |-> repo.commits[c].msg]

\* the two commits X is replaced by
MovedOut(X, F) ==
    <<[chg |-> Without(repo.commits[X].chg, F), msg |-> repo.commits[X].msg],
      [chg |-> <<F>>, msg |-> <<NewMsg + F>>]>>

RECURSIVE MoveOutIn(_, _, _)
\* what the commits s carry, one entry per commit, with X replaced
MoveOutIn(s, X, F) ==
    IF s = <<>> THEN <<>>
    ELSE (IF Head(s) = X THEN MovedOut(X, F) ELSE <<Carried(Head(s))>>)
         \o MoveOutIn(Tail(s), X, F)

C23_MoveOutReplacesCommitByTwo ==
    (last.op = "move file out" /\ last.ret) =>
        /\ [i \in 1..Len(BranchOldestFirst) |-> Carried(BranchOldestFirst[i])]
              = [i \in 1..Len(BelowRange) |-> Carried(Reverse(BelowRange)[i])]
                \o MoveOutIn(OldOrder, last.sha, FileMoved)
        /\ SubSeq(BranchOldestFirst, 1, Len(BelowRange)) = Reverse(BelowRange)
        /\ last.cmds[1].target = repo.commits[last.sha].parent
        /\ last.cmds[1].cmd \in RootForms
               <=> repo.commits[last.sha].parent = 0

C23_Witness ==
    /\ last.op = "move file out"
    /\ last.ret
    /\ Len(last.pre.list) >= 2
    /\ last.sha # last.pre.list[1]
    /\ Len(BranchOldestFirst) = Len(BelowRange) + Len(last.pre.list) + 1

(***************************************************************************)
(* C24.  A move-one-file-out asked for a commit that changes one file      *)
(* only, and a split-all-hunks asked for a commit that changes a number of *)
(* files other than one, are rejected before any rebase is started and     *)
(* leave the repository as it was; the operations that are started are on  *)
(* commits they apply to.                                                  *)
(***************************************************************************)
\* the number of files the commit of the last request changes
FilesOfRequest == Cardinality(get_commit_files(repo, last.sha))

RepositoryAsBefore ==
    /\ repo.head = last.pre.head
    /\ repo.marker = last.pre.marker
    /\ repo.dirty = last.pre.dirty
    /\ list_widget = last.pre.list
    /\ commit_sha = last.pre.anchor

C24_SplitViolationsRejected ==
    /\ last.op = "move file out rejected" =>
           FilesOfRequest < 2 /\ last.cmds = <<>> /\ RepositoryAsBefore
    /\ last.op = "split all rejected" =>
           FilesOfRequest # 1 /\ last.cmds = <<>> /\ RepositoryAsBefore
    /\ last.op = "move file out" => FilesOfRequest >= 2
    /\ last.op = "split all" => FilesOfRequest = 1

C24_Witness ==
    /\ last.op = "split all rejected"
    /\ FilesOfRequest = 2
    /\ Len(repo.commits) > Len(last.pre.list) + MaxBelow

(***************************************************************************)
(* C25.  The instruction lines the emitted program writes are a function   *)
(* of the plan alone: two emissions for the same replay list, squash set   *)
(* and rephrase map write identical lines.                                 *)
(***************************************************************************)
EmittedTwice == last.op = "emit" /\ Len(last.cmds) = 2

C25_EmissionIsFunctionOfPlan ==
    EmittedTwice => last.cmds[1].todo = last.cmds[2].todo

(***************************************************************************)
(* C26.  A rewrite operation of the tool (reorder, drop, squash, rephrase, *)
(* split; the reset-hard actions excluded) never puts back on the branch   *)
(* a commit that was in the object store and off the branch before the     *)
(* operation: every commit of the branch after it was on the branch        *)
(* before it, or was created by it.  So a dropped commit, and the          *)
(* pre-rewrite version of a rewritten one, never return.                   *)
(***************************************************************************)
ToolRewrites == (RewriteOps \cup SplitOps) \ {"call"}

OnBranch(rp) == Range(Ancestry(rp.commits, rp.head))

\* the commits of the object store that are not on the branch
OffBranch(rp) == DOMAIN rp.commits \ OnBranch(rp)

C26_DroppedCommitNeverReturns ==
    [][last'.op \in ToolRewrites => OnBranch(repo') \cap OffBranch(repo) = {}]_vars

(***************************************************************************)
(* C27.  The commits below the range the session was opened on (the parent *)
(* of the original base commit and its ancestors) are never removed,       *)
(* rewritten or displayed: after any sequence of operations each of them   *)
(* is on the branch, under its SHA, and is not in the displayed list.      *)
(***************************************************************************)
\* the parent of the base commit the session was opened on, and its ancestors
BelowOpenedRange ==
    Range(Ancestry(repo.commits, repo.commits[last.opened_on].parent))

C27_BelowRangeIsUntouched ==
    \A c \in BelowOpenedRange :
        c \in OnBranch(repo) /\ c \notin Range(list_widget)

(***************************************************************************)
(* C28.  A rewrite operation that fails does not abort or alter a rebase   *)
(* that was in progress before the operation began: the rebase is still in *)
(* progress afterwards, with the same original HEAD to return to.          *)
(***************************************************************************)
C28_EarlierRebaseIsNotAborted ==
    [][(repo.marker /\ last'.op \in ToolRewrites /\ ~last'.ret)
           => (repo'.marker /\ repo'.orig = repo.orig)]_vars

(***************************************************************************)
(* C29.  START_TIME_HEAD always names the HEAD the session started with;   *)
(* after a confirmed failsafe reset HEAD is that commit again, and the     *)
(* failsafe button, as the refresh that follows the reset sets it, is      *)
(* disabled exactly when HEAD is that commit and nothing is uncommitted.   *)
(***************************************************************************)
FailsafeResetDone == last.op = "failsafe reset" /\ last.ret

AtStartTimeHead == repo.head = last.opened_head

C29_FailsafeResetReturnsToStart ==
    /\ rev_parse(start_time_head) = last.opened_head
    /\ FailsafeResetDone =>
          /\ AtStartTimeHead
          /\ ~failsafe_btn <=> (AtStartTimeHead /\ ~repo.dirty)

(***************************************************************************)
(* C30.  In every state the "Merge selected commits" button is enabled     *)
(* only if multi-select mode is on and at least two displayed commits are  *)
(* checked; while multi-select mode is on every displayed commit is        *)
(* checkable; and multi-select mode is off after a merge attempt that      *)
(* reached the message dialog, whether it succeeded, failed or was         *)
(* cancelled.                                                              *)
(***************************************************************************)
\* the step records a merge attempt that reached the message dialog
ReachedMessageDialog ==
    last' # last /\ last'.op \in {"merge", "merge cancelled"}

MergeButtonFollowsSelection ==
    merge_selected_btn => (multi_select_mode /\ Cardinality(checked) >= 2)

AllRowsCheckable == multi_select_mode => boxes

C30_MergeButtonFollowsSelection ==
    /\ [](MergeButtonFollowsSelection /\ AllRowsCheckable)
    /\ [][ReachedMessageDialog => ~multi_select_mode']_vars

====
